---- MODULE Spec2Model ----
(***************************************************************************)
(* A model of .github/pin_actions.py: the tool that rewrites the `uses:`   *)
(* lines of workflow files so that each action reference is pinned to a    *)
(* commit sha, with the version kept in a trailing comment.                *)
(*                                                                         *)
(* Text is modelled as text: a Python str is a sequence of one-character   *)
(* strings, the regular expressions are matched character by character,    *)
(* and the formatted output is searched again by the same matchers.        *)
(***************************************************************************)
EXTENDS Integers, Sequences, FiniteSets, TLC

(***************************************************************************)
(* Characters and the character classes of the regular expressions.        *)
(***************************************************************************)
Digits == {"0", "1", "2", "3", "4", "5", "6", "7", "8", "9"}

LowerChars ==
  {"a", "b", "c", "d", "e", "f", "g", "h", "i", "j", "k", "l", "m",
   "n", "o", "p", "q", "r", "s", "t", "u", "v", "w", "x", "y", "z"}

UpperChars ==
  {"A", "B", "C", "D", "E", "F", "G", "H", "I", "J", "K", "L", "M",
   "N", "O", "P", "Q", "R", "S", "T", "U", "V", "W", "X", "Y", "Z"}

\* [0-9a-f]
HexChars == Digits \cup {"a", "b", "c", "d", "e", "f"}

\* [\w-]
WordChars == LowerChars \cup UpperChars \cup Digits \cup {"_", "-"}

\* \s
SpaceChars == {" ", "\t", "\n", "\r", "\f"}

\* The number of hexadecimal characters of a pinned reference: {40}.
ShaLen == 40

\* Python's None where a str is expected: a sequence that is no text.
None == <<"None">>

(***************************************************************************)
(* String primitives.                                                      *)
(***************************************************************************)
\* The least element of a non-empty set of integers.
Min(S) == CHOOSE i \in S : \A j \in S : i <= j

\* The index after the longest run of characters of class C starting at i
\* (a greedy C*): i itself when s[i] is not in C.
RunEnd(s, i, C) ==
  Min({k \in i..Len(s) : s[k] \notin C} \cup {Len(s) + 1})

\* s[i:].startswith(p)
StartsWithAt(s, i, p) ==
  /\ i + Len(p) - 1 <= Len(s)
  /\ \A k \in 1..Len(p) : s[i + k - 1] = p[k]

\* str.startswith
StartsWith(s, p) == StartsWithAt(s, 1, p)

\* str.replace(old, new) for a non-empty old: every non-overlapping
\* occurrence, left to right.
RECURSIVE StrReplace(_, _, _)
StrReplace(s, old, new) ==
  LET found == {i \in 1..Len(s) : StartsWithAt(s, i, old)} IN
  IF found = {} THEN s
  ELSE SubSeq(s, 1, Min(found) - 1) \o new
       \o StrReplace(SubSeq(s, Min(found) + Len(old), Len(s)), old, new)

(***************************************************************************)
(* The regular expressions.                                                *)
(***************************************************************************)
\* (?:\.\d+)* from index j: the index after the last group matched.
RECURSIVE DotGroupsEnd(_, _)
DotGroupsEnd(s, j) ==
  IF j <= Len(s) /\ s[j] = "." /\ RunEnd(s, j + 1, Digits) > j + 1
  THEN DotGroupsEnd(s, RunEnd(s, j + 1, Digits))
  ELSE j

\* v\d+(?:\.\d+)* at index i: the index after the match, 0 when none.
VersionEnd(s, i) ==
  IF i <= Len(s) /\ s[i] = "v" /\ RunEnd(s, i + 1, Digits) > i + 1
  THEN DotGroupsEnd(s, RunEnd(s, i + 1, Digits))
  ELSE 0

\* [\w-]+/[\w-]+ at index i, followed by @: the index of the @, 0 when none.
RepoEnd(s, i) ==
  LET j == RunEnd(s, i, WordChars) IN
  IF j > i /\ j <= Len(s) /\ s[j] = "/"
  THEN LET k == RunEnd(s, j + 1, WordChars) IN
       IF k > j + 1 /\ k <= Len(s) /\ s[k] = "@" THEN k ELSE 0
  ELSE 0

\* ([\w-]+/[\w-]+)@([0-9a-f]{40})\s*#\s*(v\d+(?:\.\d+)*) matched at index i:
\* the index after the match, 0 when none.
PinnedEndAt(s, i) ==
  LET at == RepoEnd(s, i) IN
  IF at = 0 \/ at + ShaLen > Len(s) THEN 0
  ELSE IF \E k \in (at + 1)..(at + ShaLen) : s[k] \notin HexChars THEN 0
  ELSE LET p == RunEnd(s, at + ShaLen + 1, SpaceChars) IN
       IF p > Len(s) \/ s[p] # "#" THEN 0
       ELSE VersionEnd(s, RunEnd(s, p + 1, SpaceChars))

\* The groups of the pinned pattern matched at index i.
PinnedGroups(s, i) ==
  LET at == RepoEnd(s, i)
      p  == RunEnd(s, at + ShaLen + 1, SpaceChars)
      q  == RunEnd(s, p + 1, SpaceChars)
      e  == PinnedEndAt(s, i)
  IN [start |-> i, end |-> e,
      repo |-> SubSeq(s, i, at - 1),
      ref |-> SubSeq(s, at + 1, at + ShaLen),
      version |-> SubSeq(s, q, e - 1)]

\* re.search finding no match of the pinned pattern.
NoPinnedMatch ==
  [start |-> 0, end |-> 0, repo |-> None, ref |-> None, version |-> None]

\* re.search(pinned pattern, line): the leftmost match.
PinnedSearch(s) ==
  LET starts == {i \in 1..Len(s) : PinnedEndAt(s, i) # 0} IN
  IF starts = {} THEN NoPinnedMatch
  ELSE PinnedGroups(s, Min(starts))

\* ([\w-]+/[\w-]+)@(v\d+(?:\.\d+)*) matched at index i: the index after the
\* match, 0 when none.
UnpinnedEndAt(s, i) ==
  LET at == RepoEnd(s, i) IN
  IF at = 0 THEN 0 ELSE VersionEnd(s, at + 1)

\* re.search finding no match of the unpinned pattern.
NoUnpinnedMatch == [start |-> 0, end |-> 0, repo |-> None, tag |-> None]

\* re.search(unpinned pattern, line): the leftmost match.
UnpinnedSearch(s) ==
  LET starts == {i \in 1..Len(s) : UnpinnedEndAt(s, i) # 0} IN
  IF starts = {} THEN NoUnpinnedMatch
  ELSE LET i  == Min(starts)
           at == RepoEnd(s, i)
           e  == UnpinnedEndAt(s, i)
       IN [start |-> i, end |-> e,
           repo |-> SubSeq(s, i, at - 1),
           tag |-> SubSeq(s, at + 1, e - 1)]

\* re.sub(pinned pattern, repl, line): every non-overlapping match replaced;
\* ReSubFrom has the leftmost match m of s.
RECURSIVE ReSubFrom(_, _, _)
ReSubFrom(s, repl, m) ==
  IF m.start = 0 THEN s
  ELSE SubSeq(s, 1, m.start - 1) \o repl
       \o ReSubFrom(SubSeq(s, m.end, Len(s)), repl,
                    PinnedSearch(SubSeq(s, m.end, Len(s))))

ReSubPinned(s, repl) == ReSubFrom(s, repl, PinnedSearch(s))

(***************************************************************************)
(* Semantic versions: semver.VersionInfo.parse and its ordering, as              *)
(* parse_semver and get_latest_version use them.                           *)
(***************************************************************************)
\* The value of a decimal digit.
DigitVal(c) ==
  CASE c = "0" -> 0 [] c = "1" -> 1 [] c = "2" -> 2 [] c = "3" -> 3
    [] c = "4" -> 4 [] c = "5" -> 5 [] c = "6" -> 6 [] c = "7" -> 7
    [] c = "8" -> 8 [] c = "9" -> 9

\* int(s[i..j]) of a run of digits.
RECURSIVE NumVal(_, _, _)
NumVal(s, i, j) ==
  IF j < i THEN 0 ELSE 10 * NumVal(s, i, j - 1) + DigitVal(s[j])

\* 0|[1-9]\d* : the run of digits s[i..j-1] is a number without leading zero.
IsNumber(s, i, j) == j > i /\ (j = i + 1 \/ s[i] # "0")

\* The characters of a pre-release part.
PreChars == LowerChars \cup UpperChars \cup Digits \cup {"-", "."}

\* The characters of a pre-release part in ASCII order.
AsciiOrder ==
  <<"-", ".", "0", "1", "2", "3", "4", "5", "6", "7", "8", "9",
    "A", "B", "C", "D", "E", "F", "G", "H", "I", "J", "K", "L", "M",
    "N", "O", "P", "Q", "R", "S", "T", "U", "V", "W", "X", "Y", "Z",
    "a", "b", "c", "d", "e", "f", "g", "h", "i", "j", "k", "l", "m",
    "n", "o", "p", "q", "r", "s", "t", "u", "v", "w", "x", "y", "z">>

CharRank(c) == CHOOSE i \in 1..Len(AsciiOrder) : AsciiOrder[i] = c

\* a < b for two pre-release parts, compared as text (the order semver gives
\* two alphabetic identifiers, the only kind the tags of this model carry).
RECURSIVE TextLess(_, _)
TextLess(a, b) ==
  IF Len(b) = 0 THEN FALSE
  ELSE IF Len(a) = 0 THEN TRUE
  ELSE IF a[1] = b[1] THEN TextLess(Tail(a), Tail(b))
  ELSE CharRank(a[1]) < CharRank(b[1])

\* The result of a failed parse: (False, None).
NoVersion ==
  [ok |-> FALSE, major |-> 0, minor |-> 0, patch |-> 0, prerelease |-> <<>>]

\* semver.VersionInfo.parse(version): major.minor.patch with an optional
\* -prerelease, nothing else (build metadata is not modelled).
VersionInfoParse(version) ==
  LET a == RunEnd(version, 1, Digits) IN
  IF ~(IsNumber(version, 1, a) /\ a <= Len(version) /\ version[a] = ".")
  THEN NoVersion
  ELSE
  LET b == RunEnd(version, a + 1, Digits) IN
  IF ~(IsNumber(version, a + 1, b) /\ b <= Len(version) /\ version[b] = ".")
  THEN NoVersion
  ELSE
  LET c == RunEnd(version, b + 1, Digits) IN
  IF ~IsNumber(version, b + 1, c) THEN NoVersion
  ELSE
  LET core == [ok |-> TRUE,
               major |-> NumVal(version, 1, a - 1),
               minor |-> NumVal(version, a + 1, b - 1),
               patch |-> NumVal(version, b + 1, c - 1),
               prerelease |-> <<>>]
  IN IF c = Len(version) + 1 THEN core
     ELSE IF /\ version[c] = "-"
             /\ c < Len(version)
             /\ \A k \in (c + 1)..Len(version) : version[k] \in PreChars
          THEN [core EXCEPT !.prerelease = SubSeq(version, c + 1, Len(version))]
          ELSE NoVersion

\* parse_semver(version_tag): one leading v stripped, then the strict parse.
parse_semver(version_tag) ==
  VersionInfoParse(IF StartsWith(version_tag, <<"v">>)
                   THEN Tail(version_tag) ELSE version_tag)

\* parsed > latest_parsed of two parsed versions (semver precedence).
VersionGreater(x, y) ==
  \/ x.major > y.major
  \/ x.major = y.major /\ x.minor > y.minor
  \/ x.major = y.major /\ x.minor = y.minor /\ x.patch > y.patch
  \/ /\ x.major = y.major /\ x.minor = y.minor /\ x.patch = y.patch
     /\ \/ x.prerelease = <<>> /\ y.prerelease # <<>>
        \/ /\ x.prerelease # <<>> /\ y.prerelease # <<>>
           /\ TextLess(y.prerelease, x.prerelease)

(***************************************************************************)
(* The state of the program and of its environment.                        *)
(***************************************************************************)
VARIABLES
  now,          \* datetime.now(), in hours
  remote,       \* what the hosting API answers
  disk,         \* the workflow directory: a sequence of files (lines of text)
  cache_file,   \* ~/.github_action_sha_cache.json
  cache,        \* the global dict cache
  args,         \* the parsed command line of the run
  pc,           \* where main() is
  file_i,       \* index into workflow_files of the file being processed
  lines,        \* process_workflow_file: lines
  updated_lines,\* process_workflow_file: updated_lines
  changes_made, \* process_workflow_file: changes_made
  last,         \* what the last call of process_line did
  log,          \* what the run did to the outside world so far
  resolved_at,  \* for each key of cache, when update_cache stored it
  file_resolved_at, \* the same for the entries of cache_file
  runs          \* the number of runs started

vars ==
  <<now, remote, disk, cache_file, cache, args, pc, file_i, lines,
    updated_lines, changes_made, last, log, resolved_at, file_resolved_at,
    runs>>

(***************************************************************************)
(* The hosting API, as fetch_json sees it.                                 *)
(***************************************************************************)
\* A response body of the tag-reference endpoint without an "object".
NoObject == <<"NoObject">>

\* The URL of a request: its endpoint, repository and (for a tag reference)
\* tag.
Url(endpoint, repo, tag) == [endpoint |-> endpoint, repo |-> repo, tag |-> tag]

\* fetch_json(url) for the tag-reference endpoint: None on a non-200 answer
\* or a network failure, else the body: NoObject, or the sha of its object.
fetch_ref(repo, tag) ==
  IF repo = remote.repo /\ tag \in DOMAIN remote.refs
  THEN remote.refs[tag] ELSE None

\* fetch_json(url) or [] for the releases endpoint: the tag_name of each.
get_all_releases(repo) ==
  IF repo = remote.repo THEN remote.releases ELSE <<>>

\* fetch_json(url) for the tags endpoint: the name of each tag; <<>> stands
\* for None and for an empty list alike (both are `not tags_data`).
fetch_tags(repo) ==
  IF repo = remote.repo THEN remote.tags ELSE <<>>

\* fetch_json(url) for the latest-release endpoint: its tag_name, None when
\* the request fails or the body has none.
fetch_latest_release(repo) ==
  IF repo = remote.repo THEN remote.latest ELSE None

(***************************************************************************)
(* Tag resolution.                                                         *)
(***************************************************************************)
\* One turn of the loop of get_latest_version on the release tag_name,
\* parsed: the (latest_version, latest_parsed) after it, latest_parsed
\* being None as long as have is FALSE.
LatestStep(tag_name, parsed, major_version, acc) ==
  IF ~parsed.ok \/ parsed.major # major_version THEN acc
  ELSE IF ~acc.have \/ VersionGreater(parsed, acc.latest_parsed)
  THEN [latest_version |-> tag_name, latest_parsed |-> parsed, have |-> TRUE]
  ELSE acc

\* The loop of get_latest_version over releases[i..].
RECURSIVE LatestLoop(_, _, _, _)
LatestLoop(releases, i, major_version, acc) ==
  IF i > Len(releases) THEN acc.latest_version
  ELSE LatestLoop(releases, i + 1, major_version,
                  LatestStep(releases[i], parse_semver(releases[i]),
                             major_version, acc))

\* get_latest_version from the releases request on (lines 140-158).
LatestAmong(releases, current_tag, major_version) ==
  IF releases = <<>> THEN current_tag
  ELSE LatestLoop(releases, 1, major_version,
                  [latest_version |-> current_tag,
                   latest_parsed |-> NoVersion, have |-> FALSE])

\* get_latest_version once current_tag is parsed (lines 134-158).
LatestFor(repo, current_tag, parsed_current) ==
  IF ~parsed_current.ok THEN [val |-> current_tag, reqs |-> <<>>]
  ELSE [val |-> LatestAmong(get_all_releases(repo), current_tag,
                            parsed_current.major),
        reqs |-> <<Url("releases", repo, <<>>)>>]

\* get_latest_version(repo, current_tag): the tag and the requests made.
get_latest_version(repo, current_tag) ==
  LatestFor(repo, current_tag, parse_semver(current_tag))

\* get_tag_sha(repo, tag) without the test `"object" not in ref_data`.
get_tag_sha_unchecked(repo, tag) ==
  [val |-> fetch_ref(repo, tag), reqs |-> <<Url("ref", repo, tag)>>]

\* get_tag_sha(repo, tag)
get_tag_sha(repo, tag) ==
  LET ref_data == fetch_ref(repo, tag) IN
  [val |-> IF ref_data = None \/ ref_data = NoObject THEN None ELSE ref_data,
   reqs |-> <<Url("ref", repo, tag)>>]

\* get_exact_tag_match(repo, tag)
get_exact_tag_match(repo, tag) ==
  LET tags_data == fetch_tags(repo) IN
  [val |-> IF tags_data = <<>> THEN tag
           ELSE IF \E i \in 1..Len(tags_data) : tags_data[i] = tag
                THEN tag
                ELSE tag,
   reqs |-> <<Url("tags", repo, <<>>)>>]

\* get_latest_release_tag(repo, tag)
get_latest_release_tag(repo, tag) ==
  IF ~StartsWith(tag, <<"v">>) \/ Len(tag) > 3
  THEN [val |-> tag, reqs |-> <<>>]
  ELSE LET latest_tag == fetch_latest_release(repo) IN
       [val |-> IF latest_tag = None THEN tag
                ELSE IF ~StartsWith(latest_tag, tag) THEN tag
                ELSE latest_tag,
        reqs |-> <<Url("latest", repo, <<>>)>>]

\* cache_key = f"{repo}@{tag}"
CacheKey(repo, tag) == repo \o <<"@">> \o tag

\* get_cached_details returning None.
NoDetails == [sha |-> None, full_version |-> None]

\* get_cached_details(repo, tag, check_for_updates) on the dict c.
get_cached_details(c, repo, tag, check_for_updates) ==
  IF ~check_for_updates /\ CacheKey(repo, tag) \in DOMAIN c
  THEN c[CacheKey(repo, tag)]
  ELSE NoDetails

\* update_cache(repo, tag, sha, full_version) on the dict c.
update_cache(c, repo, tag, sha, full_version) ==
  [k \in DOMAIN c \cup {CacheKey(repo, tag)} |->
     IF k = CacheKey(repo, tag)
     THEN [sha |-> sha, full_version |-> full_version]
     ELSE c[k]]

\* What a call of fetch_tag_details leaves behind: the pair returned, the
\* dict after it, the requests sent, the key of the cache entry returned
\* (hit) and of the one stored (stored), the tag resolved (target).
Outcome(sha, full_version, c, reqs, hit, stored, target) ==
  [sha |-> sha, full_version |-> full_version, cache |-> c, reqs |-> reqs,
   hit |-> hit, stored |-> stored, target |-> target]

\* return details["sha"], details["full_version"]
UseCached(c, repo, tag, details, reqs) ==
  Outcome(details.sha, details.full_version, c, reqs,
          CacheKey(repo, tag), None, tag)

\* The requests reqs, then those of the call r.
After(reqs, r) == [val |-> r.val, reqs |-> reqs \o r.reqs]

\* fetch_tag_details, lines 279-280, on the answer of get_exact_tag_match.
FullVersionFrom(repo, latest_tag, exact) ==
  IF exact.val = latest_tag
  THEN After(exact.reqs, get_latest_release_tag(repo, latest_tag))
  ELSE exact

\* fetch_tag_details, lines 278-280: the full version of latest_tag.
FullVersion(repo, latest_tag) ==
  FullVersionFrom(repo, latest_tag, get_exact_tag_match(repo, latest_tag))

\* fetch_tag_details, lines 283-284: the details are cached and returned.
StoreDetails(c, repo, latest_tag, reqs, sha, full_version) ==
  Outcome(sha, full_version.val,
          update_cache(c, repo, latest_tag, sha, full_version.val),
          reqs \o full_version.reqs, None, CacheKey(repo, latest_tag),
          latest_tag)

\* fetch_tag_details, lines 274-284, on the answer of get_tag_sha.
ResolveWithSha(c, repo, latest_tag, reqs, sha) ==
  IF sha.val = None \/ sha.val = <<>>
  THEN Outcome(None, None, c, reqs \o sha.reqs, None, None, latest_tag)
  ELSE StoreDetails(c, repo, latest_tag, reqs \o sha.reqs, sha.val,
                    FullVersion(repo, latest_tag))

\* fetch_tag_details, lines 272-284: the SHA of latest_tag and the rest.
ResolveTarget(c, repo, latest_tag, reqs) ==
  ResolveWithSha(c, repo, latest_tag, reqs, get_tag_sha(repo, latest_tag))

\* fetch_tag_details, lines 265-270: the cache is asked for the newer tag.
CheckNewer(c, repo, tag, check_for_updates, latest) ==
  IF /\ latest.val # tag
     /\ get_cached_details(c, repo, latest.val, check_for_updates)
          # NoDetails
  THEN UseCached(c, repo, latest.val,
                 get_cached_details(c, repo, latest.val, check_for_updates),
                 latest.reqs)
  ELSE ResolveTarget(c, repo, latest.val, latest.reqs)

\* fetch_tag_details(repo, tag, check_for_updates) on the dict c.
fetch_tag_details(c, repo, tag, check_for_updates) ==
  IF get_cached_details(c, repo, tag, check_for_updates) # NoDetails
  THEN UseCached(c, repo, tag,
                 get_cached_details(c, repo, tag, check_for_updates), <<>>)
  ELSE IF ~check_for_updates THEN ResolveTarget(c, repo, tag, <<>>)
  ELSE CheckNewer(c, repo, tag, check_for_updates,
                  get_latest_version(repo, tag))

(***************************************************************************)
(* The line rewriter.                                                      *)
(***************************************************************************)
\* f"{repo}@{sha} # {full_version}"
PinnedText(repo, sha, full_version) ==
  repo \o <<"@">> \o sha \o <<" ", "#", " ">> \o full_version

\* What process_line returns (line, changed) and what it did on the way:
\* called says whether fetch_tag_details was called, with (repo, tag), and
\* out is that call's outcome.
LineResult(line, changed, called, repo, tag, out) ==
  [line |-> line, changed |-> changed, called |-> called,
   repo |-> repo, tag |-> tag, out |-> out]

\* The outcome of no call of fetch_tag_details on the dict c.
NoCall(c) == Outcome(None, None, c, <<>>, None, None, None)

\* is_pinned_action(line)
is_pinned_action(line) == PinnedSearch(line).start # 0

\* process_pinned_action, lines 313-318, on the outcome of fetch_tag_details.
PinnedRewrite(line, m, out) ==
  IF out.sha = None \/ out.sha = <<>> \/ out.full_version = m.version
  THEN LineResult(line, FALSE, TRUE, m.repo, m.version, out)
  ELSE LineResult(
         ReSubPinned(line, PinnedText(m.repo, out.sha, out.full_version)),
         TRUE, TRUE, m.repo, m.version, out)

\* process_pinned_action without the test of check_for_updates.
PinnedActionAlways(c, line, check_for_updates, m) ==
  IF m.start = 0
  THEN LineResult(line, FALSE, FALSE, None, None, NoCall(c))
  ELSE PinnedRewrite(line, m, fetch_tag_details(c, m.repo, m.version, TRUE))

\* process_pinned_action, lines 300-318, on the match m of the pattern.
PinnedAction(c, line, check_for_updates, m) ==
  IF ~check_for_updates \/ m.start = 0
  THEN LineResult(line, FALSE, FALSE, None, None, NoCall(c))
  ELSE PinnedRewrite(line, m, fetch_tag_details(c, m.repo, m.version, TRUE))

\* process_pinned_action(line, check_for_updates) on the dict c.
process_pinned_action(c, line, check_for_updates) ==
  PinnedAction(c, line, check_for_updates, PinnedSearch(line))

\* process_unpinned_action, lines 332-337, on the outcome of
\* fetch_tag_details.
UnpinnedRewrite(line, m, out) ==
  IF out.sha = None \/ out.sha = <<>>
  THEN LineResult(line, FALSE, TRUE, m.repo, m.tag, out)
  ELSE LineResult(
         StrReplace(line, CacheKey(m.repo, m.tag),
                    PinnedText(m.repo, out.sha, out.full_version)),
         TRUE, TRUE, m.repo, m.tag, out)

\* process_unpinned_action, lines 323-337, on the match m of the pattern.
UnpinnedAction(c, line, check_for_updates, m) ==
  IF m.start = 0
  THEN LineResult(line, FALSE, FALSE, None, None, NoCall(c))
  ELSE UnpinnedRewrite(line, m,
         fetch_tag_details(c, m.repo, m.tag, check_for_updates))

\* process_unpinned_action(line, check_for_updates) on the dict c.
process_unpinned_action(c, line, check_for_updates) ==
  UnpinnedAction(c, line, check_for_updates, UnpinnedSearch(line))

\* process_line(line, check_for_updates) on the dict c.
process_line(c, line, check_for_updates) ==
  IF is_pinned_action(line)
  THEN process_pinned_action(c, line, check_for_updates)
  ELSE process_unpinned_action(c, line, check_for_updates)

(***************************************************************************)
(* Files.                                                                  *)
(***************************************************************************)
\* str.splitlines() for the line endings \n, \r\n and \r: the lines of
\* s[i..].
RECURSIVE SplitFrom(_, _)
SplitFrom(s, i) ==
  LET ends == {k \in i..Len(s) : s[k] = "\n" \/ s[k] = "\r"} IN
  IF i > Len(s) THEN <<>>
  ELSE IF ends = {} THEN <<SubSeq(s, i, Len(s))>>
  ELSE LET k == Min(ends) IN
       <<SubSeq(s, i, k - 1)>>
       \o SplitFrom(s, IF s[k] = "\r" /\ k < Len(s) /\ s[k + 1] = "\n"
                       THEN k + 2 ELSE k + 1)

SplitLines(content) == SplitFrom(content, 1)

\* '\n'.join(updated_lines)
RECURSIVE JoinLines(_)
JoinLines(ls) ==
  IF ls = <<>> THEN <<>>
  ELSE IF Len(ls) = 1 THEN ls[1]
  ELSE ls[1] \o <<"\n">> \o JoinLines(Tail(ls))

\* timedelta(hours=24)
FreshHours == 24

\* load_cache() with > for >= : a file exactly 24 hours old is loaded.
load_cache_late(file, t) ==
  IF ~file.exists THEN <<>>
  ELSE IF t - file.timestamp > FreshHours THEN <<>>
  ELSE file.entries

\* load_cache(): the dict afterwards, the global starting as {}.
load_cache(file, t) ==
  IF ~file.exists THEN <<>>
  ELSE IF t - file.timestamp >= FreshHours THEN <<>>
  ELSE file.entries

\* save_cache(): the file afterwards.
save_cache(c, t) ==
  [exists |-> TRUE, timestamp |-> t, entries |-> c]

(***************************************************************************)
(* The inputs: the texts, the workflow directories and the answers of the  *)
(* hosting API that the runs of this model are given.                      *)
(***************************************************************************)
\* "actions/checkout"
Repo ==
  <<"a", "c", "t", "i", "o", "n", "s", "/", "c", "h", "e", "c", "k", "o",
    "u", "t">>

TagV4 == <<"v", "4">>

TagV410 == <<"v", "4", ".", "1", ".", "0">>

TagV420 == <<"v", "4", ".", "2", ".", "0">>

TagV500 == <<"v", "5", ".", "0", ".", "0">>

\* A pre-release of v4.2.0, with no tag reference of its own.
TagV420rc == <<"v", "4", ".", "2", ".", "0", "-", "r", "c">>

\* A commit sha: the hexadecimal digit c, ShaLen times.
Sha(c) == [i \in 1..ShaLen |-> c]

\* The sha of each tag of the repository.
AllRefs ==
  (TagV4 :> Sha("a")) @@ (TagV410 :> Sha("b")) @@ (TagV420 :> Sha("c"))
    @@ (TagV500 :> Sha("d"))

\* "  - uses: "
UsesPrefix ==
  <<" ", " ", "-", " ", "u", "s", "e", "s", ":", " ">>

\* "  - uses: actions/checkout@<tag>"
UnpinnedLine(tag) == UsesPrefix \o CacheKey(Repo, tag)

\* "  - uses: actions/checkout@<sha> # <version>"
PinnedLine(sha, version) == UsesPrefix \o PinnedText(Repo, sha, version)

\* "steps:"
StepsLine ==
  <<"s", "t", "e", "p", "s", ":">>

\* The text of a file: each line ended by a newline.
RECURSIVE FileText(_)
FileText(ls) ==
  IF ls = <<>> THEN <<>> ELSE ls[1] \o <<"\n">> \o FileText(Tail(ls))

\* Two references on one line, the first a prefix of the second.
TwoOnALine ==
  UsesPrefix \o CacheKey(Repo, TagV4) \o <<" ">> \o CacheKey(Repo, TagV420)

\* A path of three segments, and a tag with a suffix.
LongPath == <<"x", "/">> \o CacheKey(Repo, TagV410) \o <<"-", "r", "c">>

\* A workflow file: its text, and whether it can be opened for reading and
\* for writing.
File(ls, readable, writable) ==
  [text |-> FileText(ls), readable |-> readable, writable |-> writable]

\* The workflow directories: missing, empty, one of unpinned references
\* (with an unreadable and a read-only file), one with pinned references,
\* one with lines of other shapes.
Dirs ==
  { [exists |-> FALSE, files |-> <<>>],
    [exists |-> TRUE, files |-> <<>>],
    [exists |-> TRUE,
     files |-> << File(<<StepsLine>>, TRUE, TRUE),
                  File(<<StepsLine>>, FALSE, TRUE),
                  File(<<StepsLine, UnpinnedLine(TagV4)>>, TRUE, TRUE),
                  File(<<UnpinnedLine(TagV4), UnpinnedLine(TagV4)>>,
                       TRUE, FALSE) >>],
    [exists |-> TRUE,
     files |-> << File(<<UnpinnedLine(TagV420),
                         PinnedLine(Sha("b"), TagV410)>>, TRUE, TRUE),
                  File(<<PinnedLine(Sha("a"), TagV4),
                         PinnedLine(Sha("c"), TagV420)>>, TRUE, TRUE) >>],
    [exists |-> TRUE,
     files |-> << File(<<TwoOnALine, LongPath>>, TRUE, TRUE) >>] }

\* What the hosting API answers, fixed for a behaviour.
Remotes ==
  { \* every endpoint answers; the latest release is of another major
    [repo |-> Repo, refs |-> AllRefs,
     tags |-> <<TagV500, TagV420, TagV410, TagV4>>,
     releases |-> <<TagV500, TagV420rc, TagV420, TagV410>>,
     latest |-> TagV500],
    \* the latest release is of major 4
    [repo |-> Repo, refs |-> AllRefs,
     tags |-> <<TagV420, TagV410, TagV4>>,
     releases |-> <<TagV410, TagV420>>, latest |-> TagV420],
    \* the tags list has no v4; only an old release is listed
    [repo |-> Repo, refs |-> AllRefs,
     tags |-> <<TagV420, TagV410>>,
     releases |-> <<TagV410>>, latest |-> TagV410],
    \* the tag references fail: v4 has a body without object, the rest 404
    [repo |-> Repo, refs |-> (TagV4 :> NoObject),
     tags |-> <<TagV420, TagV410, TagV4>>,
     releases |-> <<TagV420, TagV410>>, latest |-> TagV420],
    \* only the tag references answer
    [repo |-> Repo, refs |-> AllRefs,
     tags |-> <<>>, releases |-> <<>>, latest |-> None] }

\* The hours between the end of a run and the start of the next.
Gaps == {23, 24}

\* The number of runs of a behaviour.
MaxRuns == 3

(***************************************************************************)
(* The program: main() and process_workflow_file().                        *)
(***************************************************************************)
\* No call of process_line yet in this run.
NoLine ==
  [input |-> None, line |-> None, changed |-> FALSE, called |-> FALSE,
   check_for_updates |-> FALSE, repo |-> None, tag |-> None,
   sha |-> None, full_version |-> None, target |-> None, reqs |-> <<>>,
   hit |-> None, hit_age |-> 0, stored |-> None, cache_before |-> <<>>]

\* What the run has done so far: the requests sent, the files it opened for
\* writing, the files with a line reported changed, the files it visited
\* and those it could not read or write, whether it wrote and removed the
\* cache file, whether load_cache found the file stale (and its keys then),
\* and the directory as the run found it.
NewLog(stale, stale_keys, d) ==
  [requests |-> {}, file_writes |-> {}, changed_files |-> {},
   visited |-> {}, io_errors |-> {}, cache_saved |-> FALSE,
   cache_removed |-> FALSE, stale |-> stale, stale_keys |-> stale_keys,
   disk_before |-> d]

Flags == [dry_run : BOOLEAN, clear_cache : BOOLEAN, upgrade : BOOLEAN]

Init ==
  /\ now = 0
  /\ remote \in Remotes
  /\ disk \in Dirs
  /\ cache_file = [exists |-> FALSE, timestamp |-> 0, entries |-> <<>>]
  /\ cache = <<>>
  /\ args = [dry_run |-> FALSE, clear_cache |-> FALSE, upgrade |-> FALSE]
  /\ pc = "idle"
  /\ file_i = 0
  /\ lines = <<>>
  /\ updated_lines = <<>>
  /\ changes_made = FALSE
  /\ last = NoLine
  /\ log = NewLog(FALSE, {}, disk)
  /\ resolved_at = <<>>
  /\ file_resolved_at = <<>>
  /\ runs = 0

\* A new process starts main(), gap hours after the last one ended: the
\* globals are fresh, the arguments parsed.
StartRun(gap, a) ==
  /\ pc = "idle"
  /\ runs < MaxRuns
  /\ runs' = runs + 1
  /\ now' = now + gap
  /\ args' = a
  /\ pc' = "find"
  /\ UNCHANGED <<remote, disk, file_i, lines, updated_lines, changes_made,
                 last>>

\* main, lines 400-402: --clear-cache and the file exists: os.remove.
MainClearCache ==
  \E gap \in Gaps, a \in Flags :
    /\ a.clear_cache /\ cache_file.exists
    /\ StartRun(gap, a)
    /\ cache_file' = [cache_file EXCEPT !.exists = FALSE, !.entries = <<>>]
    /\ file_resolved_at' = <<>>
    /\ cache' = <<>>
    /\ resolved_at' = <<>>
    /\ log' = [NewLog(FALSE, {}, disk) EXCEPT !.cache_removed = TRUE]

\* The cache file is stale for load_cache at time t.
IsStale(file, t) ==
  file.exists /\ t - file.timestamp >= FreshHours

\* main, lines 403-404: load_cache().
MainLoadCache ==
  \E gap \in Gaps, a \in Flags :
    /\ ~(a.clear_cache /\ cache_file.exists)
    /\ StartRun(gap, a)
    /\ cache' = load_cache(cache_file, now')
    /\ resolved_at' = [k \in DOMAIN cache' |-> file_resolved_at[k]]
    /\ log' = NewLog(IsStale(cache_file, now'),
                     IF IsStale(cache_file, now')
                     THEN DOMAIN cache_file.entries ELSE {},
                     disk)
    /\ UNCHANGED <<cache_file, file_resolved_at>>

\* main, lines 409-411: the directory does not exist: return.
DirectoryNotFound ==
  /\ pc = "find"
  /\ ~disk.exists
  /\ pc' = "done"
  /\ UNCHANGED <<now, remote, disk, cache_file, cache, args, file_i, lines,
                 updated_lines, changes_made, last, log, resolved_at,
                 file_resolved_at, runs>>

\* main, lines 418-420: no workflow file: return.
NoWorkflowFiles ==
  /\ pc = "find"
  /\ disk.exists
  /\ disk.files = <<>>
  /\ pc' = "done"
  /\ UNCHANGED <<now, remote, disk, cache_file, cache, args, file_i, lines,
                 updated_lines, changes_made, last, log, resolved_at,
                 file_resolved_at, runs>>

\* main, line 422: the loop over workflow_files starts.
FoundWorkflowFiles ==
  /\ pc = "find"
  /\ disk.exists
  /\ disk.files # <<>>
  /\ pc' = "loop"
  /\ file_i' = 1
  /\ UNCHANGED <<now, remote, disk, cache_file, cache, args, lines,
                 updated_lines, changes_made, last, log, resolved_at,
                 file_resolved_at, runs>>

\* The loop goes on to the next file.
NextFile ==
  /\ pc' = "loop"
  /\ file_i' = file_i + 1
  /\ lines' = <<>>
  /\ updated_lines' = <<>>
  /\ changes_made' = FALSE

\* main, lines 426-428: dry run: the file is only reported.
DryRunSkip ==
  /\ pc = "loop"
  /\ file_i <= Len(disk.files)
  /\ args.dry_run
  /\ NextFile
  /\ UNCHANGED <<now, remote, disk, cache_file, cache, args, last, log,
                 resolved_at, file_resolved_at, runs>>

\* process_workflow_file, lines 347-356: the file is read and split.
ReadFile ==
  /\ pc = "loop"
  /\ file_i <= Len(disk.files)
  /\ ~args.dry_run
  /\ pc' = "lines"
  /\ disk.files[file_i].readable
  /\ lines' = SplitLines(disk.files[file_i].text)
  /\ updated_lines' = <<>>
  /\ changes_made' = FALSE
  /\ log' = [log EXCEPT !.visited = @ \cup {file_i}]
  /\ UNCHANGED <<now, remote, disk, cache_file, cache, args, file_i, last,
                 resolved_at, file_resolved_at, runs>>

\* process_workflow_file, lines 350-352: the read fails: return.
ReadError ==
  /\ pc = "loop"
  /\ file_i <= Len(disk.files)
  /\ ~args.dry_run
  /\ ~disk.files[file_i].readable
  /\ NextFile
  /\ log' = [log EXCEPT !.visited = @ \cup {file_i},
                        !.io_errors = @ \cup {file_i}]
  /\ UNCHANGED <<now, remote, disk, cache_file, cache, args, last,
                 resolved_at, file_resolved_at, runs>>

\* The elements of a sequence.
Range(f) == {f[i] : i \in DOMAIN f}

\* What ProcessLine records of a call of process_line on line, r being what
\* it returned.
LastLine(line, r) ==
  [input |-> line, line |-> r.line, changed |-> r.changed,
   called |-> r.called, check_for_updates |-> args.upgrade,
   repo |-> r.repo, tag |-> r.tag, sha |-> r.out.sha,
   full_version |-> r.out.full_version, target |-> r.out.target,
   reqs |-> r.out.reqs, hit |-> r.out.hit,
   hit_age |-> IF r.out.hit = None THEN 0 ELSE now - resolved_at[r.out.hit],
   stored |-> r.out.stored, cache_before |-> cache]

\* process_workflow_file, lines 360-362, r being what process_line returned.
LineDone(line, r) ==
  /\ updated_lines' = Append(updated_lines, r.line)
  /\ changes_made' = (changes_made \/ r.changed)
  /\ cache' = r.out.cache
  /\ resolved_at' =
       [k \in DOMAIN r.out.cache |->
          IF k = r.out.stored THEN now ELSE resolved_at[k]]
  /\ last' = LastLine(line, r)
  /\ log' = [log EXCEPT
               !.requests = @ \cup Range(r.out.reqs),
               !.changed_files = IF r.changed THEN @ \cup {file_i} ELSE @]

\* process_workflow_file, lines 359-362: one turn of the loop over lines.
ProcessLine ==
  /\ pc = "lines"
  /\ Len(updated_lines) < Len(lines)
  /\ LineDone(lines[Len(updated_lines) + 1],
              process_line(cache, lines[Len(updated_lines) + 1],
                           args.upgrade))
  /\ UNCHANGED <<now, remote, disk, cache_file, args, pc, file_i, lines,
                 file_resolved_at, runs>>

\* process_workflow_file without the test of changes_made.
WriteAlways(changed) == TRUE

\* process_workflow_file, line 365: the file is written back.
WriteNeeded(changed) == changed

\* process_workflow_file, lines 365-367: no change: return without writing.
NoChangesNeeded ==
  /\ pc = "lines"
  /\ Len(updated_lines) = Len(lines)
  /\ ~WriteNeeded(changes_made)
  /\ NextFile
  /\ UNCHANGED <<now, remote, disk, cache_file, cache, args, last, log,
                 resolved_at, file_resolved_at, runs>>

\* process_workflow_file, lines 369-373: the file is overwritten.
WriteFile ==
  /\ pc = "lines"
  /\ Len(updated_lines) = Len(lines)
  /\ WriteNeeded(changes_made)
  /\ disk.files[file_i].writable
  /\ disk' = [disk EXCEPT !.files[file_i].text = JoinLines(updated_lines)]
  /\ log' = [log EXCEPT !.file_writes = @ \cup {file_i}]
  /\ NextFile
  /\ UNCHANGED <<now, remote, cache_file, cache, args, last, resolved_at,
                 file_resolved_at, runs>>

\* process_workflow_file, lines 374-375: the file cannot be opened for
\* writing: it is left as it was.
WriteError ==
  /\ pc = "lines"
  /\ Len(updated_lines) = Len(lines)
  /\ WriteNeeded(changes_made)
  /\ ~disk.files[file_i].writable
  /\ log' = [log EXCEPT !.file_writes = @ \cup {file_i},
                        !.io_errors = @ \cup {file_i}]
  /\ NextFile
  /\ UNCHANGED <<now, remote, disk, cache_file, cache, args, last,
                 resolved_at, file_resolved_at, runs>>

\* main, line 432: save_cache() after the loop.
SaveCache ==
  /\ pc = "loop"
  /\ file_i > Len(disk.files)
  /\ cache_file' = save_cache(cache, now)
  /\ file_resolved_at' = resolved_at
  /\ log' = [log EXCEPT !.cache_saved = TRUE]
  /\ pc' = "done"
  /\ UNCHANGED <<now, remote, disk, cache, args, file_i, lines,
                 updated_lines, changes_made, last, resolved_at, runs>>

\* save_cache, lines 54-55: the cache file cannot be opened for writing: it
\* is left as it was.
SaveCacheError ==
  /\ pc = "loop"
  /\ file_i > Len(disk.files)
  /\ pc' = "done"
  /\ UNCHANGED <<now, remote, disk, cache_file, cache, args, file_i, lines,
                 updated_lines, changes_made, last, log, resolved_at,
                 file_resolved_at, runs>>

\* The process ends: its globals are gone, the files stay.
Exit ==
  /\ pc = "done"
  /\ pc' = "idle"
  /\ cache' = <<>>
  /\ resolved_at' = <<>>
  /\ args' = [dry_run |-> FALSE, clear_cache |-> FALSE, upgrade |-> FALSE]
  /\ file_i' = 0
  /\ lines' = <<>>
  /\ updated_lines' = <<>>
  /\ changes_made' = FALSE
  /\ last' = NoLine
  /\ log' = NewLog(FALSE, {}, disk)
  /\ UNCHANGED <<now, remote, disk, cache_file, file_resolved_at, runs>>

Next ==
  \/ MainClearCache
  \/ MainLoadCache
  \/ DirectoryNotFound
  \/ NoWorkflowFiles
  \/ FoundWorkflowFiles
  \/ DryRunSkip
  \/ ReadFile
  \/ ReadError
  \/ ProcessLine
  \/ NoChangesNeeded
  \/ WriteFile
  \/ WriteError
  \/ SaveCache
  \/ SaveCacheError
  \/ Exit

Spec == Init /\ [][Next]_vars

(***************************************************************************)
(* The properties.                                                         *)
(***************************************************************************)
\* The endpoints asked by the last call of process_line.
Endpoints == {last.reqs[i].endpoint : i \in DOMAIN last.reqs}

\* The last call of process_line resolved its tag at the hosting API: it
\* sent the tag-reference request.
RefAsked == "ref" \in Endpoints

\* C1: in fetch_tag_details with check_for_updates true, the cache entry of
\* the input tag is not returned, and when get_latest_version gives another
\* tag that the cache already holds, that entry is returned and no
\* tag-reference, tags or latest-release request is sent.
C1_TargetCacheHonored ==
  (last.called /\ last.check_for_updates) =>
    /\ last.hit # CacheKey(last.repo, last.tag)
    /\ (/\ last.target # last.tag
        /\ CacheKey(last.repo, last.target) \in DOMAIN last.cache_before)
       => /\ last.hit = CacheKey(last.repo, last.target)
          /\ last.sha = last.cache_before[last.hit].sha
          /\ last.full_version = last.cache_before[last.hit].full_version
          /\ Endpoints \subseteq {"releases"}

\* C2: when load_cache finds the cache file 24 hours old or older, no entry
\* of that file is returned by a lookup of the run: the dict holds, and
\* save_cache writes, only entries resolved during this run.
C2_StaleCacheDiscarded ==
  log.stale =>
    /\ \A k \in DOMAIN cache : resolved_at[k] = now
    /\ (last.hit # None => last.hit_age = 0)
    /\ (log.cache_saved =>
          /\ cache_file.entries = cache
          /\ \A k \in DOMAIN cache_file.entries : file_resolved_at[k] = now)

\* C2's case: the file was stale at load_cache, and a lookup of the run has
\* just been satisfied for a key that the stale file held too.
C2_Witness ==
  /\ log.stale
  /\ last.hit # None
  /\ last.hit \in log.stale_keys
  /\ log.cache_saved

CommentMajor(version) ==
  NumVal(version, 2, RunEnd(version, 2, Digits) - 1)

\* The releases whose tag parses as a semantic version of major number m.
ReleasesOfMajor(repo, m) ==
  {t \in Range(get_all_releases(repo)) :
     parse_semver(t).ok /\ parse_semver(t).major = m}

\* The releases of highest precedence among those of major number m.
BestOfMajor(repo, m) ==
  {t \in ReleasesOfMajor(repo, m) :
     \A u \in ReleasesOfMajor(repo, m) :
       ~VersionGreater(parse_semver(u), parse_semver(t))}

\* C4: with update mode on, a pinned line whose comment version has major M
\* resolves to the release of highest precedence among the releases of
\* major M, and when that differs from the comment version (and its sha is
\* found) the line is rewritten to that release's sha and version.
C4_UpgradeWithinMajor ==
  (/\ last.called /\ last.check_for_updates
   /\ is_pinned_action(last.input)
   /\ ReleasesOfMajor(last.repo, CommentMajor(last.tag)) # {})
  => /\ last.target \in BestOfMajor(last.repo, CommentMajor(last.tag))
     /\ (last.target # last.tag /\ last.sha # None)
        => /\ last.changed
           /\ last.line =
                ReSubPinned(last.input,
                            PinnedText(last.repo,
                                       fetch_ref(last.repo, last.target),
                                       last.target))

\* C4 for a comment version written in full (major.minor.patch): this much
\* of C4 the code does.
C4_FullVersionOnly ==
  parse_semver(last.tag).ok => C4_UpgradeWithinMajor

\* C5: when the tag-reference lookup of the target tag gives no sha, the
\* resolution yields (None, None), the cache is left as it was, the line is
\* returned as it was with changed false, and the run goes on.
C5_NoShaNoChange ==
  (/\ last.called /\ RefAsked
   /\ fetch_ref(last.repo, last.target) \in {None, NoObject})
  => /\ last.sha = None /\ last.full_version = None
     /\ last.stored = None
     /\ cache = last.cache_before
     /\ last.line = last.input /\ ~last.changed
     /\ (pc = "lines" /\ updated_lines # <<>>
           => updated_lines[Len(updated_lines)] = last.input)
     /\ (pc = "done" => log.visited = 1..Len(disk.files))

\* C5's case: the tag reference of the target was asked and its body has no
\* object, in a run that went on to its end.
C5_Witness ==
  /\ last.called /\ RefAsked
  /\ fetch_ref(last.repo, last.target) = NoObject
  /\ last.sha = None
  /\ pc = "done"

\* The files that process_workflow_file is done with.
FilesDone == {i \in 1..Len(disk.files) : i < file_i \/ pc = "done"}

\* C6: a workflow file is opened for writing if and only if one of its lines
\* was reported changed; a file not written is as the run found it; and a
\* read or write error ends the processing of that file only.
C6_WriteIffChanged ==
  /\ \A i \in FilesDone :
       /\ i \in log.file_writes <=> i \in log.changed_files
       /\ (i \notin log.file_writes \/ i \in log.io_errors)
            => disk.files[i] = log.disk_before.files[i]
  /\ log.file_writes \subseteq FilesDone \cup {file_i}
  /\ (pc = "done" /\ ~args.dry_run /\ disk.exists /\ disk.files # <<>>)
       => log.visited = 1..Len(disk.files)

\* C6's case: the run is over; a file without change was not written, and
\* after a file that could not be read another file was written.
C6_Witness ==
  /\ pc = "done"
  /\ \E i \in log.visited : i \notin log.file_writes \cup log.io_errors
  /\ \E i \in log.io_errors, j \in log.file_writes \ log.io_errors : i < j

\* The pinning pass (update mode off) left the line as it was: r is what
\* process_line returned for it.
Untouched(line, r) == r.line = line /\ ~r.changed

\* The pinning pass looked nothing up for a line: r is what process_line
\* returned for it.
NoLookup(r) == ~r.called /\ r.out.reqs = <<>> /\ r.out.hit = None

\* A pinning pass (update mode off) over the lines ls[i..] with the dict c
\* leaves every line as it was.
RECURSIVE PassIdle(_, _, _)
PassIdle(c, ls, i) ==
  \/ i > Len(ls)
  \/ /\ Untouched(ls[i], process_line(c, ls[i], FALSE))
     /\ PassIdle(c, ls, i + 1)

\* C7: with update mode off a line in pinned form is returned unchanged
\* with no cache lookup and no request; the output of a pinning pass is left
\* unchanged by a second pass (whatever the second run's cache: the one of
\* the first, or none), which looks nothing up for a line the first pass
\* rewrote, and writes no file again.
C7_Idempotent ==
  /\ (pc = "lines" /\ updated_lines # <<>> /\ ~last.check_for_updates) =>
       /\ is_pinned_action(last.input) =>
            /\ last.line = last.input /\ ~last.changed
            /\ ~last.called /\ last.reqs = <<>> /\ last.hit = None
       /\ \A c \in {cache, <<>>} :
            /\ Untouched(last.line, process_line(c, last.line, FALSE))
            /\ last.changed => NoLookup(process_line(c, last.line, FALSE))
  /\ (pc = "done" /\ ~args.upgrade) =>
       \A i \in log.file_writes \ log.io_errors :
         /\ PassIdle(cache, SplitLines(disk.files[i].text), 1)
         /\ PassIdle(<<>>, SplitLines(disk.files[i].text), 1)

\* C7's case: a pinning pass is over that wrote a file (it pinned a line)
\* and whose last line was already in pinned form.
C7_Witness ==
  /\ pc = "done" /\ ~args.upgrade
  /\ log.file_writes \ log.io_errors # {}
  /\ last.input # None /\ is_pinned_action(last.input)

\* C8: a dry run that leaves the cache in place writes no workflow file and
\* no cache file and sends no request.
C8_DryRunWritesNothing ==
  (pc # "idle" /\ args.dry_run /\ ~args.clear_cache) =>
    /\ log.file_writes = {}
    /\ log.requests = {}
    /\ ~log.cache_saved /\ ~log.cache_removed

\* C9: every cache entry that satisfies a lookup was resolved at the
\* hosting API less than 24 hours before the lookup.
C9_HitsYoungerThanADay ==
  last.hit # None => last.hit_age < FreshHours

\* C10: whenever get_latest_version gives a tag other than the current one,
\* its semantic version has strictly higher precedence than the current.
C10_UpgradeMovesForward ==
  (last.called /\ last.check_for_updates /\ last.target # last.tag) =>
    VersionGreater(parse_semver(last.target), parse_semver(last.tag))
====
